---- MODULE Spec2Model ----
(***************************************************************************)
(* A model of src/src/cigar.py and src/src/align.py: the conversions       *)
(* between aligned rows, edit strings and CIGAR strings.                   *)
(*                                                                         *)
(* A Python str is a sequence of one-character strings.  A Python value    *)
(* returned by a function is a record [kind, val]; a raised exception is   *)
(* the record [kind |-> "error", val |-> <exception name>].                *)
(***************************************************************************)
EXTENDS Integers, Sequences, FiniteSets, TLC

VARIABLES fn, arg, ret, src

vars == <<fn, arg, ret, src>>

----------------------------------------------------------------------------
(* Bounds of the enumerated inputs.                                        *)

MaxCigarLen == 5
MaxEditsLen == 4
MaxRowLen == 3
MaxSeqLen == 3

Digits == {"0", "1", "2", "3", "4", "5", "6", "7", "8", "9"}
SomeDigits == {"0", "1", "2"}
Ops == {"M", "I", "D"}
Bases == {"A", "C"}
Gap == "-"

Strs(A, n) == UNION {[1..k -> A] : k \in 0..n}

----------------------------------------------------------------------------
(* Python values.                                                          *)

PyStr(s) == [kind |-> "str", val |-> s]
PyList(l) == [kind |-> "list", val |-> l]
PyPairs(l) == [kind |-> "pairs", val |-> l]
PyTuple(t) == [kind |-> "tuple", val |-> t]
PyInt(n) == [kind |-> "int", val |-> n]
Raise(e) == [kind |-> "error", val |-> e]
None == [kind |-> "none", val |-> <<>>]

Min(a, b) == IF a < b THEN a ELSE b

(* s[:j] and s[j:] for j >= 0: a slice never raises, it is clipped. *)
SliceTo(s, j) == SubSeq(s, 1, Min(j, Len(s)))
SliceFrom(s, j) == SubSeq(s, Min(j, Len(s)) + 1, Len(s))

(* ''.join(l) *)
RECURSIVE Join(_)
Join(l) == IF l = <<>> THEN <<>> ELSE Head(l) \o Join(Tail(l))

(* fig * num: num repetitions of the string fig *)
RECURSIVE Repeat(_, _)
Repeat(s, n) == IF n <= 0 THEN <<>> ELSE s \o Repeat(s, n - 1)

DigitVal(c) ==
  CASE c = "0" -> 0 [] c = "1" -> 1 [] c = "2" -> 2 [] c = "3" -> 3
    [] c = "4" -> 4 [] c = "5" -> 5 [] c = "6" -> 6 [] c = "7" -> 7
    [] c = "8" -> 8 [] c = "9" -> 9

DigitChar(d) ==
  CASE d = 0 -> "0" [] d = 1 -> "1" [] d = 2 -> "2" [] d = 3 -> "3"
    [] d = 4 -> "4" [] d = 5 -> "5" [] d = 6 -> "6" [] d = 7 -> "7"
    [] d = 8 -> "8" [] d = 9 -> "9"

(* A slip of int(s): only the last digit of the run is converted. *)
IntOfLastDigit(s) == DigitVal(s[Len(s)])

(* int(s) of a non-empty string of digits *)
RECURSIVE IntOf(_)
IntOf(s) ==
  IF Len(s) = 0 THEN 0
  ELSE 10 * IntOf(SubSeq(s, 1, Len(s) - 1)) + DigitVal(s[Len(s)])

(* str(n) of a non-negative integer *)
RECURSIVE StrOf(_)
StrOf(n) ==
  IF n < 10 THEN <<DigitChar(n)>>
  ELSE StrOf(n \div 10) \o <<DigitChar(n % 10)>>

----------------------------------------------------------------------------
(* cigar.py                                                                *)

(* The end (1-based, inclusive) of the maximal run of characters of class  *)
(* "digit" (d = TRUE) or "non-digit" (d = FALSE) that starts at k.         *)
RECURSIVE RunEnd(_, _, _)
RunEnd(s, k, d) ==
  IF k < Len(s) /\ ((s[k + 1] \in Digits) = d) THEN RunEnd(s, k + 1, d) ELSE k

(* A slip of the pattern, r"(\d+)([^\d])": the op is one character and    *)
(* the scan resumes right after it.                                        *)
RECURSIVE findall_one_op(_, _)
findall_one_op(s, k) ==
  IF k > Len(s) THEN <<>>
  ELSE IF s[k] \in Digits /\ RunEnd(s, k, TRUE) < Len(s)
    THEN LET d == RunEnd(s, k, TRUE)
         IN <<[i |-> SubSeq(s, k, d), op |-> SubSeq(s, d + 1, d + 1)]>>
              \o findall_one_op(s, d + 2)
    ELSE findall_one_op(s, k + 1)

(* re.findall(r"(\d+)([^\d]+)", cigar) from position k: at a digit whose   *)
(* maximal digit run is followed by a non-digit, both runs are taken       *)
(* greedily and the scan resumes after them; anywhere else no match        *)
(* starts at k and the scan moves one character on.                        *)
RECURSIVE findall(_, _)
findall(s, k) ==
  IF k > Len(s) THEN <<>>
  ELSE IF s[k] \in Digits /\ RunEnd(s, k, TRUE) < Len(s)
    THEN LET d == RunEnd(s, k, TRUE)
             o == RunEnd(s, d + 1, FALSE)
         IN <<[i |-> SubSeq(s, k, d), op |-> SubSeq(s, d + 1, o)]>>
              \o findall(s, o + 1)
    ELSE findall(s, k + 1)

split_pairs(cigar) ==
  LET m == findall(cigar, 1)
  IN PyPairs([k \in 1..Len(m) |-> [count |-> IntOf(m[k].i), op |-> m[k].op]])

(* The loop of cigar_to_edits over enumerate(cigar); i is 0-based. *)
RECURSIVE cigar_to_edits_loop(_, _, _, _)
cigar_to_edits_loop(cigar, i, num, edits) ==
  IF i >= Len(cigar) THEN PyList(edits)
  ELSE LET fig == cigar[i + 1]
       IN IF i % 2 = 0
            THEN IF fig \in Digits
                   THEN cigar_to_edits_loop(cigar, i + 1, DigitVal(fig), edits)
                   ELSE Raise("ValueError")
            ELSE cigar_to_edits_loop(cigar, i + 1, num,
                                     Append(edits, Repeat(<<fig>>, num)))

cigar_to_edits(cigar) ==
  IF Len(cigar) = 0 THEN PyStr(<<>>)
  ELSE cigar_to_edits_loop(cigar, 0, 0, <<>>)

summation(cont_list) ==
  IF Len(cont_list) = 0 THEN <<>>
  ELSE StrOf(Len(cont_list)) \o cont_list[1]

(* The items a Python loop over the value sees: the characters of a str,   *)
(* the elements of a list.                                                 *)
Items(v) ==
  IF v.kind = "str" THEN [k \in 1..Len(v.val) |-> <<v.val[k]>>] ELSE v.val

(* The loop of edits_to_cigar over enumerate(edits); i is 0-based. *)
RECURSIVE edits_to_cigar_loop(_, _, _, _)
edits_to_cigar_loop(edits, i, temp, cigar) ==
  IF i >= Len(edits) THEN PyStr(Join(cigar))
  ELSE LET l == edits[i + 1]
       IN IF l = edits[Len(edits)]
            THEN edits_to_cigar_loop(edits, i + 1, Append(temp, l),
                                     Append(cigar, summation(Append(temp, l))))
          ELSE IF l = edits[i + 2]
            THEN edits_to_cigar_loop(edits, i + 1, Append(temp, edits[i + 2]),
                                     cigar)
          ELSE edits_to_cigar_loop(edits, i + 1, <<>>,
                                   Append(cigar, summation(Append(temp, l))))

(* edits is a Python value: a str, or the list cigar_to_edits returns. *)
edits_to_cigar(edits) ==
  IF Len(edits.val) = 0 THEN PyStr(<<>>)
  ELSE edits_to_cigar_loop(Items(edits), 0, <<>>, <<>>)

----------------------------------------------------------------------------
(* align.py                                                                *)

(* s.replace('-', '') *)
RECURSIVE Ungap(_)
Ungap(s) ==
  IF s = <<>> THEN <<>>
  ELSE IF Head(s) = Gap THEN Ungap(Tail(s)) ELSE <<Head(s)>> \o Ungap(Tail(s))

get_edits(p, q) ==
  IF Len(p) # Len(q) THEN Raise("AssertionError")
  ELSE IF p = <<>> THEN PyTuple(<<<<>>, <<>>, <<>>>>)
  ELSE LET cigar == [i \in 1..Len(p) |->
                       IF p[i] = q[i] THEN "M"
                       ELSE IF p[i] = Gap THEN "I"
                       ELSE "D"]
       IN PyTuple(<<Ungap(p), Ungap(q), cigar>>)

(* edits == len(edits)*'M' *)
AllM(edits) == \A k \in 1..Len(edits) : edits[k] = "M"

(* A slip of the splice: the gap goes after column j, '-'.join([s[:j+1],   *)
(* s[j+1:]]).                                                              *)
InsertGapAfter(s, j) == SliceTo(s, j + 1) \o <<Gap>> \o SliceFrom(s, j + 1)

(* '-'.join([s[:j], s[j:]]) *)
InsertGap(s, j) == SliceTo(s, j) \o <<Gap>> \o SliceFrom(s, j)

(* The loop of local_align: for j in range(i, len(edits)), 0-based. *)
RECURSIVE local_align_loop(_, _, _, _)
local_align_loop(edits, j, pnew, xnew) ==
  IF j >= Len(edits) THEN PyTuple(<<pnew, xnew>>)
  ELSE IF edits[j + 1] = "M" THEN local_align_loop(edits, j + 1, pnew, xnew)
  ELSE IF edits[j + 1] = "D"
    THEN local_align_loop(edits, j + 1, pnew, InsertGap(xnew, j))
  ELSE local_align_loop(edits, j + 1, InsertGap(pnew, j), xnew)

local_align(p, x, i, edits) ==
  IF p = <<>> /\ x = <<>> /\ edits = <<>> THEN PyTuple(<<<<>>, <<>>>>)
  ELSE IF AllM(edits) THEN PyTuple(<<p, x>>)
  ELSE local_align_loop(edits, i, p, SliceFrom(x, i))

(* The loop of align: for j in range(len(edits)), 0-based. *)
RECURSIVE align_loop(_, _, _, _)
align_loop(edits, j, pnew, qnew) ==
  IF j >= Len(edits) THEN PyTuple(<<pnew, qnew>>)
  ELSE IF edits[j + 1] = "M" THEN align_loop(edits, j + 1, pnew, qnew)
  ELSE IF edits[j + 1] = "D"
    THEN align_loop(edits, j + 1, pnew, InsertGap(qnew, j))
  ELSE align_loop(edits, j + 1, InsertGap(pnew, j), qnew)

align(p, q, edits) ==
  IF p = <<>> /\ q = <<>> /\ edits = <<>> THEN PyTuple(<<<<>>, <<>>>>)
  ELSE IF AllM(edits) THEN PyTuple(<<p, q>>)
  ELSE align_loop(edits, 0, p, q)

(* The counting loop of edit_dist; j is 0-based.  xnew[j] is read only     *)
(* when pnew[j] is not a gap, and raises past the end of xnew.             *)
RECURSIVE edit_dist_loop(_, _, _, _)
edit_dist_loop(pnew, xnew, j, counter) ==
  IF j >= Len(pnew) THEN PyInt(counter)
  ELSE IF pnew[j + 1] = Gap THEN edit_dist_loop(pnew, xnew, j + 1, counter + 1)
  ELSE IF j >= Len(xnew) THEN Raise("IndexError")
  ELSE IF xnew[j + 1] = Gap THEN edit_dist_loop(pnew, xnew, j + 1, counter + 1)
  ELSE IF pnew[j + 1] # xnew[j + 1]
    THEN edit_dist_loop(pnew, xnew, j + 1, counter + 1)
  ELSE edit_dist_loop(pnew, xnew, j + 1, counter)

edit_dist(p, x, i, edits) ==
  IF p = <<>> \/ x = <<>> THEN PyInt(0)
  ELSE LET rows == local_align(p, x, i, edits)
       IN edit_dist_loop(rows.val[1], rows.val[2], 0, 0)

----------------------------------------------------------------------------
(* The inputs of the calls: every string within the bounds, and the        *)
(* inputs of the doctests.                                                 *)

DocCigar == <<"1", "M", "1", "D", "6", "M", "1", "I", "4", "M">>
DocEdits == <<"M", "D", "M", "M", "M", "M", "M", "M", "I", "M", "M", "M", "M">>
DocRow1 == <<"A", "C", "C", "A", "C", "A", "G", "T", "-", "C", "A", "T", "A">>
DocRow2 == <<"A", "-", "C", "A", "G", "A", "G", "T", "A", "C", "A", "A", "A">>
DocSeq1 == <<"A", "C", "C", "A", "C", "A", "G", "T", "C", "A", "T", "A">>
DocSeq2 == <<"A", "C", "A", "G", "A", "G", "T", "A", "C", "A", "A", "A">>
DocRef == <<"G", "T", "A", "C", "A", "G", "A", "G", "T", "A", "C", "A", "A", "A">>
DocRead == <<"a", "c", "c", "a", "a", "a", "g", "t", "a">>
DocDistRef == <<"c", "g", "a", "c", "a", "a", "a", "t", "g", "t", "c", "c", "a">>
DocDistEdits == <<"M", "D", "M", "M", "I", "M", "M", "M", "M", "I", "I", "M">>
DocOffset == 2

CigarInputs == Strs(SomeDigits \cup Ops, MaxCigarLen) \cup {DocCigar}
EditsInputs == Strs(Ops, MaxEditsLen) \cup {DocEdits}
RowInputs ==
  {<<r1, r2>> : r1 \in Strs(Bases \cup {Gap}, MaxRowLen),
                r2 \in Strs(Bases \cup {Gap}, MaxRowLen)}
    \cup {<<DocRow1, DocRow2>>}
AlignInputs ==
  {<<p, q, e>> : p \in Strs(Bases, MaxSeqLen), q \in Strs(Bases, MaxSeqLen),
                 e \in Strs(Ops, MaxEditsLen)}
    \cup {<<DocSeq1, DocSeq2, DocEdits>>}
LocalInputs ==
  {<<a[1], a[2], i, a[3]>> : a \in AlignInputs \ {<<DocSeq1, DocSeq2, DocEdits>>},
                             i \in 0..MaxSeqLen}
    \cup {<<DocSeq1, DocRef, DocOffset, DocEdits>>,
          <<DocRead, DocDistRef, DocOffset, DocDistEdits>>}

----------------------------------------------------------------------------
(* The state: the last call made (fn), its arguments (arg), what it        *)
(* returned or raised (ret), and, when the argument was itself the result  *)
(* of a call, the arguments of that call (src).                            *)

Init ==
  /\ fn = "idle"
  /\ arg = None
  /\ ret = None
  /\ src = None

CallSplitPairs ==
  /\ fn = "idle"
  /\ \E c \in CigarInputs :
       /\ arg' = [cigar |-> c]
       /\ ret' = split_pairs(c)
  /\ fn' = "split_pairs"
  /\ UNCHANGED src

CallCigarToEdits ==
  /\ fn = "idle"
  /\ \E c \in CigarInputs :
       /\ arg' = [cigar |-> c]
       /\ ret' = cigar_to_edits(c)
  /\ fn' = "cigar_to_edits"
  /\ UNCHANGED src

CallEditsToCigar ==
  /\ fn = "idle"
  /\ \E e \in EditsInputs :
       /\ arg' = [edits |-> PyStr(e)]
       /\ ret' = edits_to_cigar(PyStr(e))
  /\ fn' = "edits_to_cigar"
  /\ UNCHANGED src

(* edits_to_cigar(cigar_to_edits(c)): the value returned is passed on. *)
CallEditsToCigarOfResult ==
  /\ fn = "cigar_to_edits"
  /\ ret.kind # "error"
  /\ arg' = [edits |-> ret]
  /\ ret' = edits_to_cigar(ret)
  /\ fn' = "edits_to_cigar"
  /\ src' = [kind |-> "args", val |-> arg]

CallGetEdits ==
  /\ fn = "idle"
  /\ \E r \in RowInputs :
       /\ arg' = [p |-> r[1], q |-> r[2]]
       /\ ret' = get_edits(r[1], r[2])
  /\ fn' = "get_edits"
  /\ UNCHANGED src

CallAlign ==
  /\ fn = "idle"
  /\ \E a \in AlignInputs :
       /\ arg' = [p |-> a[1], q |-> a[2], edits |-> a[3]]
       /\ ret' = align(a[1], a[2], a[3])
  /\ fn' = "align"
  /\ UNCHANGED src

(* align applied to the tuple get_edits(r1, r2) returned. *)
CallAlignOfResult ==
  /\ fn = "get_edits"
  /\ ret.kind # "error"
  /\ arg' = [p |-> ret.val[1], q |-> ret.val[2], edits |-> ret.val[3]]
  /\ ret' = align(ret.val[1], ret.val[2], ret.val[3])
  /\ fn' = "align"
  /\ src' = [kind |-> "args", val |-> arg]

CallLocalAlign ==
  /\ fn = "idle"
  /\ \E a \in LocalInputs :
       /\ a[3] <= Len(a[2])
       /\ arg' = [p |-> a[1], x |-> a[2], i |-> a[3], edits |-> a[4]]
       /\ ret' = local_align(a[1], a[2], a[3], a[4])
  /\ fn' = "local_align"
  /\ UNCHANGED src

CallEditDist ==
  /\ fn = "idle"
  /\ \E a \in LocalInputs :
       /\ a[3] <= Len(a[2])
       /\ arg' = [p |-> a[1], x |-> a[2], i |-> a[3], edits |-> a[4]]
       /\ ret' = edit_dist(a[1], a[2], a[3], a[4])
  /\ fn' = "edit_dist"
  /\ UNCHANGED src

NextCigar ==
  \/ CallSplitPairs
  \/ CallCigarToEdits
  \/ CallEditsToCigar
  \/ CallEditsToCigarOfResult

NextAlign ==
  \/ CallGetEdits
  \/ CallAlign
  \/ CallAlignOfResult

NextLocal ==
  \/ CallLocalAlign
  \/ CallEditDist

Next == NextCigar \/ NextAlign \/ NextLocal

SpecCigar == Init /\ [][NextCigar]_vars
SpecAlign == Init /\ [][NextAlign]_vars
SpecLocal == Init /\ [][NextLocal]_vars
Spec == Init /\ [][Next]_vars

----------------------------------------------------------------------------
(* What the claims speak of, stated without the code's algorithms.         *)

NotGap(c) == c # Gap
IsDigit(c) == c \in Digits
NotDigit(c) == c \notin Digits

Count(e, S) == Cardinality({k \in 1..Len(e) : e[k] \in S})

RECURSIVE Pow10(_)
Pow10(n) == IF n = 0 THEN 1 ELSE 10 * Pow10(n - 1)

RECURSIVE DecimalValueFrom(_, _)
DecimalValueFrom(s, k) ==
  IF k > Len(s) THEN 0
  ELSE DigitVal(s[k]) * Pow10(Len(s) - k) + DecimalValueFrom(s, k + 1)

(* The value of a decimal numeral: the sum of digit * 10^position. *)
DecimalValue(s) == DecimalValueFrom(s, 1)

(* The length of the longest prefix of s whose characters satisfy Test. *)
PrefixLen(s, Test(_)) ==
  IF \A k \in 1..Len(s) : Test(s[k]) THEN Len(s)
  ELSE (CHOOSE k \in 1..Len(s) : ~Test(s[k]) /\ \A m \in 1..(k - 1) : Test(s[m])) - 1

(* c is (<digits><op>)* with op in {M, I, D}. *)
RECURSIVE CigarGrammar(_)
CigarGrammar(c) ==
  \/ c = <<>>
  \/ LET d == PrefixLen(c, IsDigit)
     IN /\ d >= 1
        /\ d < Len(c)
        /\ c[d + 1] \in Ops
        /\ CigarGrammar(SubSeq(c, d + 2, Len(c)))

(* The (count, op) items of a string of the grammar, in order. *)
RECURSIVE CigarItems(_)
CigarItems(c) ==
  IF c = <<>> THEN <<>>
  ELSE LET d == PrefixLen(c, IsDigit)
       IN <<[digits |-> SubSeq(c, 1, d), op |-> <<c[d + 1]>>]>>
            \o CigarItems(SubSeq(c, d + 2, Len(c)))

(* Well-formed: of the grammar, every count a positive decimal numeral. *)
WellFormed(c) ==
  /\ CigarGrammar(c)
  /\ \A k \in 1..Len(CigarItems(c)) : CigarItems(c)[k].digits[1] # "0"

MaximalRuns(c) ==
  \A k \in 1..(Len(CigarItems(c)) - 1) :
    CigarItems(c)[k].op # CigarItems(c)[k + 1].op

ExpectedPairs(c) ==
  [k \in 1..Len(CigarItems(c)) |->
     [count |-> DecimalValue(CigarItems(c)[k].digits), op |-> CigarItems(c)[k].op]]

(* count repetitions of op for each pair, concatenated in order *)
RECURSIVE Expansion(_)
Expansion(pairs) ==
  IF pairs = <<>> THEN <<>>
  ELSE [k \in 1..Head(pairs).count |-> Head(pairs).op[1]] \o Expansion(Tail(pairs))

(* The run-length encoding of an edit string, as (count, op) pairs. *)
RECURSIVE RunLengths(_)
RunLengths(e) ==
  IF e = <<>> THEN <<>>
  ELSE LET n == CHOOSE n \in 1..Len(e) :
                  /\ \A k \in 1..n : e[k] = e[1]
                  /\ (n < Len(e) => e[n + 1] # e[1])
       IN <<[count |-> n, op |-> <<e[1]>>]>> \o RunLengths(SubSeq(e, n + 1, Len(e)))

RECURSIVE CigarText(_)
CigarText(pairs) ==
  IF pairs = <<>> THEN <<>>
  ELSE StrOf(Head(pairs).count) \o Head(pairs).op \o CigarText(Tail(pairs))

(* Rows of equal length with no column gapped in both. *)
AlignedRows(r1, r2) ==
  /\ Len(r1) = Len(r2)
  /\ \A k \in 1..Len(r1) : ~(r1[k] = Gap /\ r2[k] = Gap)

ExpectedEdits(r1, r2) ==
  [k \in 1..Len(r1) |->
     IF r1[k] = Gap THEN "I" ELSE IF r2[k] = Gap THEN "D" ELSE "M"]

(* edits describes an alignment of all of p against all of q. *)
Consistent(p, q, edits) ==
  /\ \A k \in 1..Len(edits) : edits[k] \in Ops
  /\ Count(edits, {"M", "D"}) = Len(p)
  /\ Count(edits, {"M", "I"}) = Len(q)

(* edits describes an alignment of all of p against a prefix of x[i:]. *)
ConsistentAt(p, x, i, edits) ==
  /\ \A k \in 1..Len(edits) : edits[k] \in Ops
  /\ Count(edits, {"M", "D"}) = Len(p)
  /\ Count(edits, {"M", "I"}) <= Len(x) - i

(* The columns, from column k on, with a gap or two different characters,  *)
(* a and b being the characters of p and x already placed.                 *)
RECURSIVE ColumnCost(_, _, _, _, _, _)
ColumnCost(p, x, edits, k, a, b) ==
  IF k > Len(edits) THEN 0
  ELSE IF edits[k] = "M"
    THEN (IF p[a + 1] # x[b + 1] THEN 1 ELSE 0)
           + ColumnCost(p, x, edits, k + 1, a + 1, b + 1)
  ELSE IF edits[k] = "D" THEN 1 + ColumnCost(p, x, edits, k + 1, a + 1, b)
  ELSE 1 + ColumnCost(p, x, edits, k + 1, a, b + 1)

(* The maximal runs of digits and of non-digits of s, in order. *)
RECURSIVE Blocks(_)
Blocks(s) ==
  IF s = <<>> THEN <<>>
  ELSE LET n == IF IsDigit(s[1]) THEN PrefixLen(s, IsDigit)
                ELSE PrefixLen(s, NotDigit)
       IN <<SubSeq(s, 1, n)>> \o Blocks(SubSeq(s, n + 1, Len(s)))

(* The blocks without a leading run of non-digits and a trailing run of    *)
(* digits: digit runs and non-digit runs alternate, in pairs.              *)
PairedBlocks(s) ==
  LET b == Blocks(s)
      lo == IF b # <<>> /\ NotDigit(b[1][1]) THEN 2 ELSE 1
      hi == IF b # <<>> /\ IsDigit(b[Len(b)][1]) THEN Len(b) - 1 ELSE Len(b)
  IN SubSeq(b, lo, hi)

LenientPairs(s) ==
  LET b == PairedBlocks(s)
  IN [k \in 1..(Len(b) \div 2) |->
        [count |-> DecimalValue(b[2 * k - 1]), op |-> b[2 * k]]]

----------------------------------------------------------------------------
(* The claims.                                                             *)

(* C1: for every well-formed CIGAR string c with maximal runs,             *)
(* cigar_to_edits(c) does not raise and edits_to_cigar of what it returns  *)
(* is exactly c.                                                           *)
C1_CigarRoundTrip ==
  /\ (fn = "cigar_to_edits" /\ WellFormed(arg.cigar) /\ MaximalRuns(arg.cigar)
        => ret.kind # "error")
  /\ (fn = "edits_to_cigar" /\ src.kind = "args"
        /\ WellFormed(src.val.cigar) /\ MaximalRuns(src.val.cigar)
        => ret = PyStr(src.val.cigar))

(* C2: for every pair of rows of equal length with no column gapped in     *)
(* both, align applied to what get_edits returned gives back the rows.     *)
C2_RowsRoundTrip ==
  fn = "align" /\ src.kind = "args" /\ AlignedRows(src.val.p, src.val.q)
    => ret = PyTuple(<<src.val.p, src.val.q>>)

(* C3: for every non-empty edit string e over {M, I, D}, edits_to_cigar(e) *)
(* is the run-length encoding of e, one <run-length><op> per maximal run.  *)
C3_RunLengthEncoding ==
  fn = "edits_to_cigar" /\ arg.edits.kind = "str" /\ arg.edits.val # <<>>
    => ret = PyStr(CigarText(RunLengths(arg.edits.val)))

(* C4: for every well-formed CIGAR string c, cigar_to_edits(c) returns,    *)
(* without raising, one string: count repetitions of op for each pair.     *)
C4_Expansion ==
  fn = "cigar_to_edits" /\ WellFormed(arg.cigar)
    => ret.kind = "str" /\ ret.val = Expansion(ExpectedPairs(arg.cigar))

(* C5: for aligned rows (r1, r2), get_edits returns the rows without their *)
(* gaps and the edits: I where r1 has a gap, D where r2 has one, M where   *)
(* neither has, equal characters or not.                                   *)
C5_EditsOfRows ==
  fn = "get_edits" /\ AlignedRows(arg.p, arg.q)
    => ret = PyTuple(<<SelectSeq(arg.p, NotGap), SelectSeq(arg.q, NotGap),
                       ExpectedEdits(arg.p, arg.q)>>)

(* C6: for 0 <= i <= len(x), local_align(p, x, i, e) returns the rows      *)
(* align(p, x[i:], e) returns.                                             *)
C6_LocalAlignIsAlignOfSuffix ==
  fn = "local_align" /\ arg.i <= Len(arg.x)
    => ret = align(arg.p, SliceFrom(arg.x, arg.i), arg.edits)

(* C7: for non-empty p and x and edits consistent with p and x[i:],        *)
(* edit_dist returns, without raising, the number of columns of the        *)
(* alignment with a gap or two different characters.                       *)
C7_EditDistance ==
  fn = "edit_dist" /\ arg.p # <<>> /\ arg.x # <<>>
    /\ ConsistentAt(arg.p, arg.x, arg.i, arg.edits)
    => ret = PyInt(ColumnCost(arg.p, SliceFrom(arg.x, arg.i), arg.edits, 1, 0, 0))

(* C8: for edits consistent with p and q, align(p, q, e) returns two rows  *)
(* of length len(e), the first with a gap exactly where e is I, the        *)
(* second exactly where e is D, that are p and q once the gaps are         *)
(* removed.                                                                *)
C8_AlignRows ==
  fn = "align" /\ Consistent(arg.p, arg.q, arg.edits)
    => /\ ret.kind = "tuple"
       /\ Len(ret.val) = 2
       /\ Len(ret.val[1]) = Len(arg.edits)
       /\ Len(ret.val[2]) = Len(arg.edits)
       /\ \A k \in 1..Len(arg.edits) :
            /\ (ret.val[1][k] = Gap) <=> (arg.edits[k] = "I")
            /\ (ret.val[2][k] = Gap) <=> (arg.edits[k] = "D")
       /\ SelectSeq(ret.val[1], NotGap) = arg.p
       /\ SelectSeq(ret.val[2], NotGap) = arg.q

(* C8 witness: the doctest's call, with a deletion and an insertion, has   *)
(* returned the doctest's rows.                                            *)
C8_Witness ==
  /\ fn = "align"
  /\ arg.edits = DocEdits
  /\ Consistent(arg.p, arg.q, arg.edits)
  /\ ret = PyTuple(<<DocRow1, DocRow2>>)

(* C9, as claimed: on malformed CIGAR text split_pairs fails with a parse  *)
(* error.                                                                  *)
C9_MalformedRaises ==
  fn = "split_pairs" /\ ~CigarGrammar(arg.cigar) => ret.kind = "error"

(* C9, amended: on malformed CIGAR text split_pairs does not fail; it      *)
(* returns one pair per digit run that an operation character follows,     *)
(* the op being the whole run of operation characters after it, and drops  *)
(* leading operation characters and a trailing digit run.                  *)
C9_MalformedIsLenient ==
  fn = "split_pairs" /\ ~CigarGrammar(arg.cigar)
    => ret = PyPairs(LenientPairs(arg.cigar))

(* C9 witness: 'M1MM2' has lost its leading M and its trailing 2, and MM   *)
(* has become one op.                                                      *)
C9_Witness ==
  /\ fn = "split_pairs"
  /\ arg.cigar = <<"M", "1", "M", "M", "2">>
  /\ ~CigarGrammar(arg.cigar)
  /\ ret = PyPairs(<<[count |-> 1, op |-> <<"M", "M">>]>>)

(* C10: for every well-formed CIGAR string c, split_pairs(c) returns, in   *)
(* order, one (count, op) pair per item, count the value of the whole      *)
(* digit run and op the one character after it.                            *)
C10_SplitPairs ==
  fn = "split_pairs" /\ WellFormed(arg.cigar)
    => ret = PyPairs(ExpectedPairs(arg.cigar))

(* C10 witness: '12M1D', with a count of two digits, has given             *)
(* [(12, 'M'), (1, 'D')].                                                  *)
C10_Witness ==
  /\ fn = "split_pairs"
  /\ arg.cigar = <<"1", "2", "M", "1", "D">>
  /\ WellFormed(arg.cigar)
  /\ ret = PyPairs(<<[count |-> 12, op |-> <<"M">>], [count |-> 1, op |-> <<"D">>]>>)

====
